---- MODULE Spec2Model ----
(***************************************************************************)
(* PayPalCommerceAlternativeMethodsPaymentStrategy (initialize, execute,   *)
(* deinitialize and the callbacks it hands to the vendor button) and the   *)
(* AdyenV2ScriptLoader, as state machines.  Every await of the source is a *)
(* step boundary: the event loop may run any other handler between the     *)
(* step that suspends and the step that resumes.                           *)
(***************************************************************************)
EXTENDS Integers, Sequences, FiniteSets, TLC

\* ------------------------------------------------------------- bounds
\* Calls that go on to an await (an initialize() that loads the vendor SDK, an
\* execute() that passes its guards, a createOrder callback) the environment makes.
MaxCalls == 2
\* The same, in one checkout flow: an initialize(), a createOrder and an execute().
FlowCalls == 3
MaxAdyenLoads == 2
\* Calls of the strategy that may be suspended at an await at the same time.
MaxPending == 1

\* ------------------------------------------------------------- values
\* undefined, for an identifier and for a string the code takes apart.
None == "undefined"
Undef == <<"undefined">>

\* Strings the code takes apart are sequences of characters.
Ideal == <<"i", "d", "e", "a", "l">>
OxxoLower == <<"o", "x", "x", "o">>
OxxoUpper == <<"O", "X", "X", "O">>
HashContainer == <<"#", "c">>
PlainContainer == <<"c">>

\* JavaScript truthiness of an optional string.
Truthy(s) == s # Undef /\ s # <<>>
Defined(id) == id # None /\ id # ""

UpperChar(c) ==
    CASE c = "i" -> "I" [] c = "d" -> "D" [] c = "e" -> "E" [] c = "a" -> "A"
      [] c = "l" -> "L" [] c = "o" -> "O" [] c = "x" -> "X" [] OTHER -> c

toUpperCase(s) == [i \in 1..Len(s) |-> UpperChar(s[i])]

\* Keys of the NonInstantAlternativePaymentMethods enum (paypal-commerce-types).
NonInstantAlternativePaymentMethods == {OxxoUpper}

isNonInstantPaymentMethodExact(methodId) ==
    methodId \in NonInstantAlternativePaymentMethods

isNonInstantPaymentMethod(methodId) ==
    toUpperCase(methodId) \in NonInstantAlternativePaymentMethods

\* s.split(sep): the segments of s between occurrences of sep.
RECURSIVE SplitFrom(_, _, _, _)
SplitFrom(s, sep, i, cur) ==
    IF i > Len(s) THEN <<cur>>
    ELSE IF s[i] = sep THEN <<cur>> \o SplitFrom(s, sep, i + 1, <<>>)
    ELSE SplitFrom(s, sep, i + 1, Append(cur, s[i]))

split(s, sep) == SplitFrom(s, sep, 1, <<>>)

\* container.split('#')[1]; indexing past the end gives undefined.
containerId(container) ==
    LET parts == split(container, "#")
    IN  IF Len(parts) >= 2 THEN parts[2] ELSE Undef

\* ------------------------------------------------------------- inputs
InitOrderIds == {"init-1"}
ButtonOrderIds == {"ord-1"}
OrderIds == InitOrderIds \union ButtonOrderIds
Errors == {"err-1", "err-2"}
GatewayId == "paypalcommercealternativemethods"

\* The caller's options object (container, onError, apmFieldsContainer).
PayPalOptions ==
    { [container |-> HashContainer, onError |-> TRUE, apmFieldsContainer |-> "#fields"],
      [container |-> PlainContainer, onError |-> FALSE, apmFieldsContainer |-> None] }

\* An optional object is <<>> (undefined) or <<object>>.
Optional(S) == {<<>>} \union {<<x>> : x \in S}

\* The deprecated paypalcommerce option carries the same kind of object.
LegacyOptions ==
    { [container |-> PlainContainer, onError |-> FALSE, apmFieldsContainer |-> None] }

Options(methodId, gatewayId, legacy, alternative) ==
    [ methodId |-> methodId, gatewayId |-> gatewayId, paypalcommerce |-> legacy,
      paypalcommercealternativemethods |-> alternative ]

\* initialize() arguments: each missing-argument case, and the complete ones.
InitializeOptions ==
    { Options(m, GatewayId, <<>>, <<o>>) : m \in {Undef, <<>>}, o \in LegacyOptions }
    \union { Options(Ideal, g, <<>>, <<o>>) : g \in {None}, o \in LegacyOptions }
    \union { Options(Ideal, GatewayId, <<>>, <<>>) }
    \union { Options(m, GatewayId, <<>>, <<o>>) : m \in {Ideal, OxxoLower}, o \in PayPalOptions }
    \union { Options(m, GatewayId, <<l>>, <<>>) : m \in {Ideal}, l \in LegacyOptions }
    \union { Options(m, GatewayId, <<l>>, <<o>>) :
                 m \in {OxxoLower}, l \in LegacyOptions,
                 o \in {p \in PayPalOptions : p.container = HashContainer} }

\* paymentMethod.initializationData as the checkout state returns it.
InitializationData ==
    Optional([ orderId : {None} \union InitOrderIds, shouldRenderFields : BOOLEAN ])

Payments == [ methodId : {Ideal, OxxoLower}, gatewayId : {GatewayId} ]
Payloads == [ payment : Optional(Payments) ]

\* ------------------------------------------------------------- state
VARIABLES
    orderId,                    \* this.orderId
    paypalApms,                 \* this.paypalApms (None or "sdk")
    paypalButton,               \* this.paypalButton (0: undefined, or an index of buttons)
    loadingIndicatorContainer,  \* this.loadingIndicatorContainer
    buttons,                    \* every handle paypalApms.Buttons() returned
    fields,                     \* number of PaymentFields widgets rendered
    indicator,                  \* the LoadingIndicator: shown or hidden, and where
    pendingInit,                \* initialize() calls suspended at getPayPalApmsSdk
    pendingExec,                \* execute() calls suspended at submitOrder
    pendingCreate,              \* createOrder callbacks suspended at an await
    sdkLoads,                   \* calls of getPayPalApmsSdk
    executes,                   \* execute() calls that passed both guards
    clicks,                     \* createOrder callbacks the vendor made
    submitOrderCalls,           \* submitOrder calls, by caller
    submitPaymentCalls,         \* submitPayment calls
    backendOrders,              \* paypalCommerceIntegrationService.createOrder calls
    last,                       \* what the last step did
    budget,                     \* calls going on to an await the environment may still make
    submitted,                  \* the ids execute() has passed to submitPayment
    adyenWindow,                \* window.AdyenCheckout: None or the client it returns
    adyenLoads,                 \* AdyenV2ScriptLoader.load() calls in flight
    adyenCalls,                 \* load() calls made
    adyenLast                   \* outcome of the last load() step

strategyVars ==
    <<orderId, paypalApms, paypalButton, loadingIndicatorContainer, buttons, fields,
      indicator, pendingInit, pendingExec, pendingCreate, sdkLoads, executes, clicks,
      submitOrderCalls, submitPaymentCalls, backendOrders, last, budget, submitted>>

adyenVars == <<adyenWindow, adyenLoads, adyenCalls, adyenLast>>

vars == <<strategyVars, adyenVars>>

\* What a step did: the operation, the vendor's or caller's input, the outcome, the
\* order id it stored or passed on, and the error it handed to the caller.
Event(op, input, result, id, err) ==
    [op |-> op, input |-> input, result |-> result, id |-> id, err |-> err]

Remove(seq, i) == [j \in 1..(Len(seq) - 1) |-> IF j < i THEN seq[j] ELSE seq[j + 1]]

\* ------------------------------------------------------------- initial state
Init ==
    /\ orderId = None
    /\ paypalApms = None
    /\ paypalButton = 0
    /\ loadingIndicatorContainer = Undef
    /\ buttons = <<>>
    /\ fields = 0
    /\ indicator = [shown |-> FALSE, container |-> Undef]
    /\ pendingInit = <<>>
    /\ pendingExec = <<>>
    /\ pendingCreate = <<>>
    /\ sdkLoads = 0
    /\ executes = 0
    /\ clicks = 0
    /\ submitOrderCalls = [execute |-> 0, createOrder |-> 0]
    /\ submitPaymentCalls = 0
    /\ backendOrders = 0
    /\ last = Event("construct", None, "resolved", None, None)
    /\ budget = MaxCalls
    /\ submitted = {}
    /\ adyenWindow = None
    /\ adyenLoads = <<>>
    /\ adyenCalls = [load |-> 0, script |-> 0, stylesheet |-> 0]
    /\ adyenLast = [result |-> None, client |-> None, configuration |-> None]

\* ------------------------------------------------------------- helpers
\* paypalcommercealternativemethods || paypalcommerce
paypalOptionsOf(options) ==
    IF options.paypalcommercealternativemethods # <<>>
    THEN options.paypalcommercealternativemethods
    ELSE options.paypalcommerce

\* paymentMethod.initializationData || {}
initializationDataOf(data) ==
    IF data # <<>> THEN data[1] ELSE [orderId |-> None, shouldRenderFields |-> FALSE]

\* loadingIndicator.show(container) when loading and a container is known, else hide().
toggleLoadingIndicator(isLoading, container) ==
    IF isLoading /\ Truthy(container)
    THEN [shown |-> TRUE, container |-> container]
    ELSE [shown |-> FALSE, container |-> Undef]

\* Calls suspended at an await.
Pending == Len(pendingInit) + Len(pendingExec) + Len(pendingCreate)

\* A button the vendor may call back on: rendered into the page and not closed.
Live(b) == b \in 1..Len(buttons) /\ buttons[b].rendered /\ ~buttons[b].closed

\* ------------------------------------------------------------- initialize
initializeStoresNothing(data) == None

\* The order id initialize() stores (this.orderId = orderId).
initializeOrderId(data) == initializationDataOf(data).orderId

initialize(options, data) ==
    LET opts == paypalOptionsOf(options)
        id == initializationDataOf(data).orderId
    IN
    /\ UNCHANGED adyenVars
    /\ IF ~Truthy(options.methodId) \/ ~Defined(options.gatewayId) \/ opts = <<>>
       THEN /\ last' = Event("initialize", None, "InvalidArgumentError", None, None)
            /\ UNCHANGED <<orderId, paypalApms, paypalButton, loadingIndicatorContainer,
                           buttons, fields, indicator, pendingInit, pendingExec,
                           pendingCreate, sdkLoads, executes, clicks, submitOrderCalls,
                           submitPaymentCalls, backendOrders, budget, submitted>>
       ELSE IF Defined(id)
       THEN /\ orderId' = initializeOrderId(data)
            /\ last' = Event("initialize", id, "stored", None, None)
            /\ UNCHANGED <<paypalApms, paypalButton, loadingIndicatorContainer, buttons,
                           fields, indicator, pendingInit, pendingExec, pendingCreate,
                           sdkLoads, executes, clicks, submitOrderCalls,
                           submitPaymentCalls, backendOrders, budget, submitted>>
       ELSE /\ budget > 0
            /\ Pending < MaxPending
            /\ budget' = budget - 1
            /\ sdkLoads' = sdkLoads + 1
            /\ pendingInit' = Append(pendingInit,
                   [ methodId |-> options.methodId, gatewayId |-> options.gatewayId,
                     opts |-> opts[1],
                     shouldRenderFields |-> initializationDataOf(data).shouldRenderFields ])
            /\ last' = Event("initialize", None, "awaitSdk", None, None)
            /\ UNCHANGED <<orderId, paypalApms, paypalButton, loadingIndicatorContainer,
                           buttons, fields, indicator, pendingExec, pendingCreate,
                           executes, clicks, submitOrderCalls, submitPaymentCalls,
                           backendOrders, submitted>>

\* getPayPalApmsSdk resolved: the rest of initialize() (lines 91-102), with
\* renderButton and renderFields.  eligible is what paypalButton.isEligible() answers.
initializeResumed(i, eligible) ==
    LET p == pendingInit[i]
        button == [ methodId |-> p.methodId, gatewayId |-> p.gatewayId,
                    onError |-> p.opts.onError, rendered |-> eligible, closed |-> FALSE ]
    IN
    /\ i \in 1..Len(pendingInit)
    /\ pendingInit' = Remove(pendingInit, i)
    /\ paypalApms' = "sdk"
    /\ loadingIndicatorContainer' = containerId(p.opts.container)
    /\ buttons' = Append(buttons, button)
    /\ paypalButton' = Len(buttons) + 1
    /\ IF ~p.shouldRenderFields
       THEN /\ fields' = fields
            /\ last' = Event("initializeResumed", None, "resolved", None, None)
       ELSE IF ~Defined(p.opts.apmFieldsContainer)
       THEN /\ fields' = fields
            /\ last' = Event("initializeResumed", None, "InvalidArgumentError", None, None)
       ELSE /\ fields' = fields + 1
            /\ last' = Event("initializeResumed", None, "resolved", None, None)
    /\ UNCHANGED <<orderId, indicator, pendingExec, pendingCreate, sdkLoads, executes,
                   clicks, submitOrderCalls, submitPaymentCalls, backendOrders, budget, submitted>>
    /\ UNCHANGED adyenVars

\* getPayPalApmsSdk rejected: initialize() rejects with the loader's error.
initializeRejected(i) ==
    /\ i \in 1..Len(pendingInit)
    /\ pendingInit' = Remove(pendingInit, i)
    /\ last' = Event("initializeResumed", None, "rejected", None, None)
    /\ UNCHANGED <<orderId, paypalApms, paypalButton, loadingIndicatorContainer, buttons,
                   fields, indicator, pendingExec, pendingCreate, sdkLoads, executes,
                   clicks, submitOrderCalls, submitPaymentCalls, backendOrders, budget, submitted>>
    /\ UNCHANGED adyenVars

\* ------------------------------------------------------------- execute
submittedOrderIdAtEntry(p) == p.entryOrderId

\* The id execute() passes to submitPayment after the submitOrder await: this.orderId,
\* read when the call is made (line 124).  p is the suspended call.
submittedOrderId(p) == orderId

executeGuardPaymentOnly(payload) ==
    IF payload.payment = <<>> THEN "PaymentArgumentInvalidError" ELSE "passed"

\* The two guards of execute() (lines 108-116), in their order.
executeGuard(payload) ==
    IF payload.payment = <<>> THEN "PaymentArgumentInvalidError"
    ELSE IF ~Defined(orderId) THEN "PaymentMethodInvalidError"
    ELSE "passed"

execute(payload) ==
    LET given == IF payload.payment = <<>> THEN "no payment" ELSE "payment"
    IN
    /\ UNCHANGED adyenVars
    /\ UNCHANGED <<paypalApms, paypalButton, loadingIndicatorContainer, buttons, fields,
                   indicator, pendingInit, pendingCreate, sdkLoads, clicks, backendOrders,
                   orderId>>
    /\ IF executeGuard(payload) # "passed"
       THEN /\ last' = Event("execute", given, executeGuard(payload), None, None)
            /\ UNCHANGED <<pendingExec, executes, submitOrderCalls, submitPaymentCalls,
                           submitted, budget>>
       ELSE /\ budget > 0
            /\ budget' = budget - 1
            /\ executes' = executes + 1
            /\ IF ~isNonInstantPaymentMethod(payload.payment[1].methodId)
               THEN /\ Pending < MaxPending
                    /\ submitOrderCalls' =
                          [submitOrderCalls EXCEPT !.execute = submitOrderCalls.execute + 1]
                    /\ pendingExec' = Append(pendingExec,
                          [ methodId |-> payload.payment[1].methodId,
                            gatewayId |-> payload.payment[1].gatewayId,
                            entryOrderId |-> orderId ])
                    /\ last' = Event("execute", given, "awaitSubmitOrder", None, None)
                    /\ UNCHANGED <<submitPaymentCalls, submitted>>
               ELSE /\ submitPaymentCalls' = submitPaymentCalls + 1
                    /\ submitted' = submitted \union {orderId}
                    /\ last' = Event("execute", given, "submitPayment", orderId, None)
                    /\ UNCHANGED <<pendingExec, submitOrderCalls>>

\* submitOrder resolved: execute() goes on to submitPayment (lines 122-126).
executeResumed(i) ==
    /\ i \in 1..Len(pendingExec)
    /\ pendingExec' = Remove(pendingExec, i)
    /\ submitPaymentCalls' = submitPaymentCalls + 1
    /\ submitted' = submitted \union {submittedOrderId(pendingExec[i])}
    /\ last' = Event("executeResumed", pendingExec[i].entryOrderId, "submitPayment",
                     submittedOrderId(pendingExec[i]), None)
    /\ UNCHANGED <<orderId, paypalApms, paypalButton, loadingIndicatorContainer, buttons,
                   fields, indicator, pendingInit, pendingCreate, sdkLoads, executes,
                   clicks, submitOrderCalls, backendOrders, budget>>
    /\ UNCHANGED adyenVars

\* submitOrder rejected: execute() rejects with that error and submits no payment.
executeRejected(i) ==
    /\ i \in 1..Len(pendingExec)
    /\ pendingExec' = Remove(pendingExec, i)
    /\ last' = Event("executeResumed", pendingExec[i].entryOrderId, "rejected", None, None)
    /\ UNCHANGED <<orderId, paypalApms, paypalButton, loadingIndicatorContainer, buttons,
                   fields, indicator, pendingInit, pendingCreate, sdkLoads, executes,
                   clicks, submitOrderCalls, submitPaymentCalls, backendOrders, budget, submitted>>
    /\ UNCHANGED adyenVars

\* ------------------------------------------------------------- deinitialize
\* this.orderId = undefined; this.paypalButton?.close()
deinitialize ==
    /\ orderId' = None
    /\ buttons' = IF paypalButton # 0
                  THEN [buttons EXCEPT ![paypalButton].closed = TRUE]
                  ELSE buttons
    /\ last' = Event("deinitialize", None, "resolved", None, None)
    /\ UNCHANGED <<paypalApms, paypalButton, loadingIndicatorContainer, fields, indicator,
                   pendingInit, pendingExec, pendingCreate, sdkLoads, executes, clicks,
                   submitOrderCalls, submitPaymentCalls, backendOrders, budget, submitted>>
    /\ UNCHANGED adyenVars

\* ------------------------------------------------------------- button callbacks
\* onApprove: (data) => this.handleApprove(data, submitForm)
handleApprove(b, orderID) ==
    /\ Live(b)
    /\ orderId' = orderID
    /\ last' = Event("onApprove", orderID, "submitForm", orderID, None)
    /\ UNCHANGED <<paypalApms, paypalButton, loadingIndicatorContainer, buttons, fields,
                   indicator, pendingInit, pendingExec, pendingCreate, sdkLoads, executes,
                   clicks, submitOrderCalls, submitPaymentCalls, backendOrders, budget, submitted>>
    /\ UNCHANGED adyenVars

\* onCancel: () => this.toggleLoadingIndicator(false)
onCancel(b) ==
    /\ Live(b)
    /\ indicator' = toggleLoadingIndicator(FALSE, loadingIndicatorContainer)
    /\ last' = Event("onCancel", None, "resolved", None, None)
    /\ UNCHANGED <<orderId, paypalApms, paypalButton, loadingIndicatorContainer, buttons,
                   fields, pendingInit, pendingExec, pendingCreate, sdkLoads, executes,
                   clicks, submitOrderCalls, submitPaymentCalls, backendOrders, budget, submitted>>
    /\ UNCHANGED adyenVars

reportedErrorFirst(error, onError) == IF onError THEN "err-1" ELSE None

\* What the caller's onError receives: the vendor's error, when onError is a function.
reportedError(error, onError) == IF onError THEN error ELSE None

\* onError: (error) => this.handleFailure(error, onError)
handleFailure(b, error) ==
    /\ Live(b)
    /\ indicator' = toggleLoadingIndicator(FALSE, loadingIndicatorContainer)
    /\ last' = Event("onError", error, "resolved", None,
                     reportedError(error, buttons[b].onError))
    /\ UNCHANGED <<orderId, paypalApms, paypalButton, loadingIndicatorContainer, buttons,
                   fields, pendingInit, pendingExec, pendingCreate, sdkLoads, executes,
                   clicks, submitOrderCalls, submitPaymentCalls, backendOrders, budget, submitted>>
    /\ UNCHANGED adyenVars

\* ------------------------------------------------------------- createOrder callback
\* createOrder: () => this.onCreateOrder(methodId, gatewayId, paypalOptions).
\* The caller's onValidate calls onValidationPassed (passed) or noop (not passed) and
\* its promise resolves; onCreateOrder is then suspended at that await.
onCreateOrder(b, passed) ==
    /\ Live(b)
    /\ budget > 0
    /\ Pending < MaxPending
    /\ budget' = budget - 1
    /\ clicks' = clicks + 1
    /\ indicator' = IF passed
                    THEN toggleLoadingIndicator(TRUE, loadingIndicatorContainer)
                    ELSE indicator
    /\ pendingCreate' = Append(pendingCreate,
           [ methodId |-> buttons[b].methodId, gatewayId |-> buttons[b].gatewayId,
             stage |-> "onValidate", passed |-> passed, orderId |-> None ])
    /\ last' = Event("createOrder", IF passed THEN "passed" ELSE "failed",
                     "awaitValidate", None, None)
    /\ UNCHANGED <<orderId, paypalApms, paypalButton, loadingIndicatorContainer, buttons,
                   fields, pendingInit, pendingExec, sdkLoads, executes, submitOrderCalls,
                   submitPaymentCalls, backendOrders, submitted>>
    /\ UNCHANGED adyenVars

\* onValidate settled: paypalCommerceIntegrationService.createOrder is called (line 202).
onCreateOrderValidated(i) ==
    /\ i \in 1..Len(pendingCreate)
    /\ pendingCreate[i].stage = "onValidate"
    /\ backendOrders' = backendOrders + 1
    /\ pendingCreate' = [pendingCreate EXCEPT ![i].stage = "createOrder"]
    /\ last' = Event("createOrder", IF pendingCreate[i].passed THEN "passed" ELSE "failed",
                     "backendCreateOrder", None, None)
    /\ UNCHANGED <<orderId, paypalApms, paypalButton, loadingIndicatorContainer, buttons,
                   fields, indicator, pendingInit, pendingExec, sdkLoads, executes, clicks,
                   submitOrderCalls, submitPaymentCalls, budget, submitted>>
    /\ UNCHANGED adyenVars

\* The backend answered with an order id: a non-instant method submits the order
\* (line 215), any other returns the id to the vendor.
onCreateOrderCreated(i, id) ==
    /\ i \in 1..Len(pendingCreate)
    /\ pendingCreate[i].stage = "createOrder"
    /\ IF isNonInstantPaymentMethod(pendingCreate[i].methodId)
       THEN /\ submitOrderCalls' =
                  [submitOrderCalls EXCEPT !.createOrder = submitOrderCalls.createOrder + 1]
            /\ pendingCreate' =
                  [pendingCreate EXCEPT ![i].stage = "submitOrder", ![i].orderId = id]
            /\ last' = Event("createOrder", id, "awaitSubmitOrder", None, None)
       ELSE /\ pendingCreate' = Remove(pendingCreate, i)
            /\ last' = Event("createOrder", id, "returned", id, None)
            /\ UNCHANGED submitOrderCalls
    /\ UNCHANGED <<orderId, paypalApms, paypalButton, loadingIndicatorContainer, buttons,
                   fields, indicator, pendingInit, pendingExec, sdkLoads, executes, clicks,
                   submitPaymentCalls, backendOrders, budget, submitted>>
    /\ UNCHANGED adyenVars

\* submitOrder resolved: submitPayment with the created id (line 216), which is then
\* returned to the vendor.
onCreateOrderSubmitted(i) ==
    /\ i \in 1..Len(pendingCreate)
    /\ pendingCreate[i].stage = "submitOrder"
    /\ submitPaymentCalls' = submitPaymentCalls + 1
    /\ pendingCreate' = Remove(pendingCreate, i)
    /\ last' = Event("createOrder", pendingCreate[i].orderId, "submitPayment",
                     pendingCreate[i].orderId, None)
    /\ UNCHANGED <<orderId, paypalApms, paypalButton, loadingIndicatorContainer, buttons,
                   fields, indicator, pendingInit, pendingExec, sdkLoads, executes, clicks,
                   submitOrderCalls, backendOrders, budget, submitted>>
    /\ UNCHANGED adyenVars

\* The backend's createOrder or submitOrder rejected: the callback rejects.
onCreateOrderRejected(i) ==
    /\ i \in 1..Len(pendingCreate)
    /\ pendingCreate[i].stage \in {"createOrder", "submitOrder"}
    /\ pendingCreate' = Remove(pendingCreate, i)
    /\ last' = Event("createOrder", None, "rejected", None, None)
    /\ UNCHANGED <<orderId, paypalApms, paypalButton, loadingIndicatorContainer, buttons,
                   fields, indicator, pendingInit, pendingExec, sdkLoads, executes, clicks,
                   submitOrderCalls, submitPaymentCalls, backendOrders, budget, submitted>>
    /\ UNCHANGED adyenVars

\* ------------------------------------------------------------- the strategy
Next ==
    \/ \E options \in InitializeOptions, data \in InitializationData :
           initialize(options, data)
    \/ \E i \in 1..Len(pendingInit), eligible \in BOOLEAN : initializeResumed(i, eligible)
    \/ \E i \in 1..Len(pendingInit) : initializeRejected(i)
    \/ \E payload \in Payloads : execute(payload)
    \/ \E i \in 1..Len(pendingExec) : executeResumed(i)
    \/ \E i \in 1..Len(pendingExec) : executeRejected(i)
    \/ deinitialize
    \/ \E b \in 1..Len(buttons), id \in ButtonOrderIds : handleApprove(b, id)
    \/ \E b \in 1..Len(buttons) : onCancel(b)
    \/ \E b \in 1..Len(buttons), error \in Errors : handleFailure(b, error)
    \/ \E b \in 1..Len(buttons), passed \in BOOLEAN : onCreateOrder(b, passed)
    \/ \E i \in 1..Len(pendingCreate) : onCreateOrderValidated(i)
    \/ \E i \in 1..Len(pendingCreate), id \in ButtonOrderIds : onCreateOrderCreated(i, id)
    \/ \E i \in 1..Len(pendingCreate) : onCreateOrderSubmitted(i)
    \/ \E i \in 1..Len(pendingCreate) : onCreateOrderRejected(i)

Spec == Init /\ [][Next]_vars

\* ------------------------------------------------------------- one checkout flow
\* A checkout through the button: initialize() renders it, the vendor calls createOrder,
\* then onApprove, and the caller's submitForm leads to execute() for the same method.
InitFlow ==
    /\ orderId = None
    /\ paypalApms = None
    /\ paypalButton = 0
    /\ loadingIndicatorContainer = Undef
    /\ buttons = <<>>
    /\ fields = 0
    /\ indicator = [shown |-> FALSE, container |-> Undef]
    /\ pendingInit = <<>>
    /\ pendingExec = <<>>
    /\ pendingCreate = <<>>
    /\ sdkLoads = 0
    /\ executes = 0
    /\ clicks = 0
    /\ submitOrderCalls = [execute |-> 0, createOrder |-> 0]
    /\ submitPaymentCalls = 0
    /\ backendOrders = 0
    /\ last = Event("construct", None, "resolved", None, None)
    /\ budget = FlowCalls
    /\ submitted = {}
    /\ adyenWindow = None
    /\ adyenLoads = <<>>
    /\ adyenCalls = [load |-> 0, script |-> 0, stylesheet |-> 0]
    /\ adyenLast = [result |-> None, client |-> None, configuration |-> None]

NextFlow ==
    \/ \E options \in InitializeOptions, data \in InitializationData :
           /\ sdkLoads = 0
           /\ initialize(options, data)
    \/ \E i \in 1..Len(pendingInit), eligible \in BOOLEAN : initializeResumed(i, eligible)
    \/ \E b \in 1..Len(buttons), passed \in BOOLEAN :
           /\ clicks = 0
           /\ onCreateOrder(b, passed)
    \/ \E i \in 1..Len(pendingCreate) : onCreateOrderValidated(i)
    \/ \E i \in 1..Len(pendingCreate), id \in ButtonOrderIds : onCreateOrderCreated(i, id)
    \/ \E i \in 1..Len(pendingCreate) : onCreateOrderSubmitted(i)
    \/ \E b \in 1..Len(buttons) :
           /\ last.op = "createOrder"
           /\ last.result \in {"returned", "submitPayment"}
           /\ handleApprove(b, last.id)
    \/ \E payload \in Payloads :
           /\ last.op = "onApprove"
           /\ payload.payment # <<>>
           /\ payload.payment[1].methodId = buttons[paypalButton].methodId
           /\ execute(payload)
    \/ \E i \in 1..Len(pendingExec) : executeResumed(i)

SpecFlow == InitFlow /\ [][NextFlow]_vars

\* ------------------------------------------------------------- AdyenV2ScriptLoader
AdyenClients == {"adyen-client-1", "adyen-client-2"}
AdyenConfigurations == {"originKey", "clientKey"}

\* load(configuration): the stylesheet and the script are requested together.
adyenLoad(configuration) ==
    /\ adyenCalls.load < MaxAdyenLoads
    /\ adyenCalls' = [load |-> adyenCalls.load + 1, script |-> adyenCalls.script + 1,
                      stylesheet |-> adyenCalls.stylesheet + 1]
    /\ adyenLoads' = Append(adyenLoads,
           [configuration |-> configuration, script |-> FALSE, stylesheet |-> FALSE])
    /\ adyenLast' = [result |-> "pending", client |-> None, configuration |-> configuration]
    /\ UNCHANGED adyenWindow
    /\ UNCHANGED strategyVars

\* The script ran: it set window.AdyenCheckout (to a factory of some client) or left it
\* undefined, and loadScript resolved.
adyenScriptLoaded(i, attached) ==
    /\ i \in 1..Len(adyenLoads)
    /\ ~adyenLoads[i].script
    /\ adyenLoads' = [adyenLoads EXCEPT ![i].script = TRUE]
    /\ adyenWindow' = attached
    /\ adyenLast' = [result |-> "pending", client |-> None,
                     configuration |-> adyenLoads[i].configuration]
    /\ UNCHANGED adyenCalls
    /\ UNCHANGED strategyVars

adyenStylesheetLoaded(i) ==
    /\ i \in 1..Len(adyenLoads)
    /\ ~adyenLoads[i].stylesheet
    /\ adyenLoads' = [adyenLoads EXCEPT ![i].stylesheet = TRUE]
    /\ adyenLast' = [result |-> "pending", client |-> None,
                     configuration |-> adyenLoads[i].configuration]
    /\ UNCHANGED <<adyenWindow, adyenCalls>>
    /\ UNCHANGED strategyVars

adyenClientIgnoringWindow == "adyen-client-1"

\* What load() answers once both loads resolved: window.AdyenCheckout's client, or
\* undefined when the script did not attach it.
adyenClient == adyenWindow

adyenSettled(i) ==
    /\ i \in 1..Len(adyenLoads)
    /\ adyenLoads[i].script
    /\ adyenLoads[i].stylesheet
    /\ adyenLoads' = Remove(adyenLoads, i)
    /\ adyenLast' = IF adyenClient = None
                    THEN [ result |-> "PaymentMethodClientUnavailableError", client |-> None,
                           configuration |-> adyenLoads[i].configuration ]
                    ELSE [ result |-> "resolved", client |-> adyenClient,
                           configuration |-> adyenLoads[i].configuration ]
    /\ UNCHANGED <<adyenWindow, adyenCalls>>
    /\ UNCHANGED strategyVars

\* loadScript or loadStylesheet rejected: load() rejects with the loader's error.
adyenRejected(i) ==
    /\ i \in 1..Len(adyenLoads)
    /\ ~(adyenLoads[i].script /\ adyenLoads[i].stylesheet)
    /\ adyenLoads' = Remove(adyenLoads, i)
    /\ adyenLast' = [result |-> "rejected", client |-> None,
                     configuration |-> adyenLoads[i].configuration]
    /\ UNCHANGED <<adyenWindow, adyenCalls>>
    /\ UNCHANGED strategyVars

NextAdyen ==
    \/ \E configuration \in AdyenConfigurations : adyenLoad(configuration)
    \/ \E i \in 1..Len(adyenLoads), attached \in {None} \union AdyenClients :
           adyenScriptLoaded(i, attached)
    \/ \E i \in 1..Len(adyenLoads) : adyenStylesheetLoaded(i)
    \/ \E i \in 1..Len(adyenLoads) : adyenSettled(i)
    \/ \E i \in 1..Len(adyenLoads) : adyenRejected(i)

SpecAdyen == Init /\ [][NextAdyen]_vars

\* ------------------------------------------------------------- properties
strategyFields == <<orderId, paypalApms, paypalButton, loadingIndicatorContainer>>
submissions == <<submitOrderCalls, submitPaymentCalls, backendOrders, submitted>>
SubmitOrderTotal == submitOrderCalls.execute + submitOrderCalls.createOrder

\* C1: in the state deinitialize() leaves, with no initialize() still suspended, the
\* order id is unset and every button handle ever created has been closed.
C1_DeinitializeClosesEveryButton ==
    (last.op = "deinitialize" /\ pendingInit = <<>>)
        => /\ orderId = None
           /\ \A b \in 1..Len(buttons) : buttons[b].closed

\* C2, as stated: an id that is held and that execute() has not submitted changes only
\* when deinitialize() resets it, and execute() passes the held id to submitPayment.
C2_HeldUntilSubmissionOrReset ==
    [][ /\ (Defined(orderId) /\ orderId \notin submitted /\ orderId' # orderId)
              => last'.op = "deinitialize"
        /\ (last'.op \in {"execute", "executeResumed"} /\ last'.result = "submitPayment")
              => last'.id = orderId ]_vars

\* C2, amended: the held id changes only when initialize() stores the initialization
\* data's id, when onApprove stores the approved id (replacing any id held), or when
\* deinitialize() resets it; execute() never changes it, and the id it passes to
\* submitPayment is the value of this.orderId when the call is made.
C2_HeldIdChangesOnlyByStoreApproveReset ==
    [][ /\ orderId' # orderId =>
              \/ last'.op = "initialize" /\ last'.result = "stored"
                 /\ orderId' = last'.input /\ orderId' \in InitOrderIds
              \/ last'.op = "onApprove" /\ orderId' = last'.input
              \/ last'.op = "deinitialize" /\ orderId' = None
        /\ last'.op \in {"execute", "executeResumed"} =>
              /\ orderId' = orderId
              /\ last'.result = "submitPayment" =>
                    /\ last'.id = orderId
                    /\ submitted' = submitted \union {orderId} ]_vars

\* C2 witness: execute() submitted the id that onApprove stored while it awaited
\* submitOrder, not the id it had checked on entry.
C2_Witness ==
    /\ last.op = "executeResumed"
    /\ last.result = "submitPayment"
    /\ last.id = "ord-1"
    /\ last.input = "init-1"
    /\ orderId = "ord-1"

\* C3: execute() without a payment fails with PaymentArgumentInvalidError, and with a
\* payment but no held order id with PaymentMethodInvalidError; either way nothing is
\* submitted and nothing of the strategy changes.
C3_ExecuteGuards ==
    [][ last'.op = "execute" =>
          /\ last'.input = "no payment" => last'.result = "PaymentArgumentInvalidError"
          /\ (last'.input = "payment" /\ ~Defined(orderId))
                => last'.result = "PaymentMethodInvalidError"
          /\ ~Defined(orderId)
                => last'.result \in {"PaymentArgumentInvalidError", "PaymentMethodInvalidError"}
          /\ last'.result \in {"PaymentArgumentInvalidError", "PaymentMethodInvalidError"}
                => UNCHANGED <<strategyFields, submissions, buttons, fields, indicator,
                               pendingInit, pendingExec, pendingCreate, sdkLoads,
                               executes, clicks>> ]_vars

\* C3 witness: execute() with a payment failed for want of an order id after an id had
\* been approved and deinitialize() had reset it.
C3_Witness ==
    /\ last.op = "execute"
    /\ last.input = "payment"
    /\ last.result = "PaymentMethodInvalidError"
    /\ \E b \in 1..Len(buttons) : buttons[b].closed

\* C4: a step in which initialize() rejects with InvalidArgumentError belongs to a call
\* that loaded no vendor SDK, and changes no field, button or payment-fields widget.
C4_InvalidArgumentBeforeDelegation ==
    [][ (last'.op \in {"initialize", "initializeResumed"}
         /\ last'.result = "InvalidArgumentError")
           => /\ last'.op = "initialize"
              /\ UNCHANGED <<strategyFields, buttons, fields, sdkLoads>> ]_vars

\* C5: onError hides the loading indicator and hands the vendor's error, unchanged, to
\* the caller's onError when there is one; onCancel hides the indicator; neither
\* changes the held id or submits anything.
C5_FailureAndCancel ==
    [][ /\ last'.op = "onError" =>
              /\ ~indicator'.shown
              /\ last'.err \in {last'.input, None}
              /\ last'.err = None =>
                    \E b \in 1..Len(buttons) : Live(b) /\ ~buttons[b].onError
              /\ last'.err # None =>
                    \E b \in 1..Len(buttons) : Live(b) /\ buttons[b].onError
              /\ UNCHANGED <<orderId, submissions, pendingExec, pendingCreate>>
        /\ last'.op = "onCancel" =>
              /\ ~indicator'.shown
              /\ UNCHANGED <<orderId, submissions, pendingExec, pendingCreate>> ]_vars

\* C5 witness: the vendor reported err-2 while the indicator of a validated createOrder
\* was up; the caller's onError got err-2 and the indicator is hidden.
C5_Witness ==
    /\ last.op = "onError"
    /\ last.input = "err-2"
    /\ last.err = "err-2"
    /\ ~indicator.shown
    /\ Truthy(loadingIndicatorContainer)
    /\ \E i \in 1..Len(pendingCreate) : pendingCreate[i].passed

\* C6: when deinitialize() ran while an initialize() was suspended at the SDK load, the
\* button that initialize() goes on to create is not left rendered and un-closed once
\* both calls have completed.
C6_NoButtonLeftAfterRace ==
    [][ (last.op = "deinitialize" /\ Len(pendingInit) > 0
         /\ last'.op = "initializeResumed" /\ pendingInit' = <<>>
         /\ Len(buttons') > Len(buttons))
           => ~(buttons'[Len(buttons')].rendered /\ ~buttons'[Len(buttons')].closed) ]_vars

\* C7: load() requests the script and the stylesheet; it resolves to the client
\* window.AdyenCheckout returns exactly when the script left AdyenCheckout on the
\* window, and fails with PaymentMethodClientUnavailableError, with no client, exactly
\* when it did not.
C7_AdyenLoad ==
    /\ adyenCalls.script = adyenCalls.load
    /\ adyenCalls.stylesheet = adyenCalls.load
    /\ adyenLast.result = "resolved"
          => adyenWindow # None /\ adyenLast.client = adyenWindow
    /\ adyenLast.result = "PaymentMethodClientUnavailableError"
          => adyenWindow = None /\ adyenLast.client = None

\* C7 witness: a second load() resolved to the client the window then held.
C7_Witness ==
    /\ adyenLast.result = "resolved"
    /\ adyenLast.client = "adyen-client-2"
    /\ adyenCalls.load = 2

\* C8: with an order id in the initialization data initialize() stores it and does
\* nothing else, and the execute() that follows submits payment with that id.
C8_InitializeWithOrderId ==
    [][ /\ (last'.op = "initialize" /\ last'.result = "stored") =>
              /\ Defined(last'.input)
              /\ orderId' = last'.input
              /\ UNCHANGED <<paypalApms, paypalButton, loadingIndicatorContainer, buttons,
                             fields, indicator, sdkLoads, pendingInit, submissions>>
        /\ (last.op = "initialize" /\ last.result = "stored"
            /\ last'.op = "execute" /\ last'.input = "payment") =>
              \/ last'.result = "submitPayment" /\ last'.id = last.input
              \/ /\ last'.result = "awaitSubmitOrder"
                 /\ pendingExec'[Len(pendingExec')].entryOrderId = last.input
        /\ (last.op = "execute" /\ last.result = "awaitSubmitOrder"
            /\ last'.op = "executeResumed" /\ last'.result = "submitPayment") =>
              last'.id = pendingExec[Len(pendingExec)].entryOrderId ]_vars

\* C8 witness: payment was submitted with the initialization data's id, with no SDK
\* loaded and no button created.
C8_Witness ==
    /\ last.op = "executeResumed"
    /\ last.result = "submitPayment"
    /\ last.id = "init-1"
    /\ sdkLoads = 0
    /\ buttons = <<>>
    /\ fields = 0

\* C9: in a checkout flow submitOrder is called at most once, before any submitPayment,
\* by createOrder for a non-instant method and by execute() for any other, and exactly
\* once when execute() has submitted the payment.
C9_SubmitOrderOnce ==
    /\ SubmitOrderTotal <= 1
    /\ submitPaymentCalls > 0 => SubmitOrderTotal = 1
    /\ SubmitOrderTotal = 1 =>
          IF toUpperCase(buttons[paypalButton].methodId) \in NonInstantAlternativePaymentMethods
          THEN submitOrderCalls.createOrder = 1
          ELSE submitOrderCalls.execute = 1
    /\ (last.op \in {"execute", "executeResumed"} /\ last.result = "submitPayment")
          => SubmitOrderTotal = 1

\* C9 witness: a non-instant flow ended: createOrder submitted the order and the
\* payment, execute() submitted the payment again and no order.
C9_Witness ==
    /\ last.op = "execute"
    /\ last.result = "submitPayment"
    /\ submitOrderCalls = [execute |-> 0, createOrder |-> 1]
    /\ submitPaymentCalls = 2
    /\ buttons[paypalButton].methodId = OxxoLower

\* C10: the createOrder callback creates a backend order, and submits, only after
\* onValidate reported that validation passed.
C10_OrderOnlyAfterValidationPassed ==
    /\ (last.op = "createOrder" /\ last.input = "failed")
          => last.result = "awaitValidate" /\ ~indicator.shown
    /\ \A i \in 1..Len(pendingCreate) :
          ~pendingCreate[i].passed => pendingCreate[i].stage = "onValidate"
====
